---- MODULE Spec2Model ----
(***************************************************************************)
(* Model of the rust_chess board representation: the square codec          *)
(* (bit_to_position, position_to_bit, index_to_position, bit_scan), the    *)
(* FEN reader (Game::read_FEN, parse_row) and the board renderer           *)
(* (Game::to_string).                                                      *)
(*                                                                         *)
(* Representation choices:                                                 *)
(*  - a Rust char is a one-character string; Ord gives its ASCII byte.     *)
(*  - a &str / String is a sequence of chars.                              *)
(*  - a u64 bitboard is the set of its set bit positions (a subset of      *)
(*    0..63), because the model checker's integers are 32 bits wide.       *)
(*    bit == 0 is the empty set, 1 << n is {n}, and bit % 67 is computed   *)
(*    from the residues of the powers of two.                              *)
(***************************************************************************)
EXTENDS Integers, Sequences, FiniteSets, TLC

VARIABLES pc, entry, fen, rest, game, panic, board, op, arg, ret

vars == <<pc, entry, fen, rest, game, panic, board, op, arg, ret>>

fenVars == <<pc, entry, fen, rest, game, panic, board>>
codecVars == <<op, arg, ret>>

(***************************************************************************)
(* Bounds of the model.                                                    *)
(***************************************************************************)
\* longest square name handed to position_to_bit
MaxNameLen == 3
\* largest number of set bits in a mask handed to bit_to_position
MaxBits == 2
\* largest number of rows of a placement field that differ from the filler
MaxVaried == 2

(***************************************************************************)
(* Characters.                                                             *)
(***************************************************************************)
Lower == <<"a","b","c","d","e","f","g","h","i","j","k","l","m",
           "n","o","p","q","r","s","t","u","v","w","x","y","z">>
Upper == <<"A","B","C","D","E","F","G","H","I","J","K","L","M",
           "N","O","P","Q","R","S","T","U","V","W","X","Y","Z">>
Digits == <<"0","1","2","3","4","5","6","7","8","9">>

Ord == [c \in {Lower[i] : i \in 1..26} |-> 96 + (CHOOSE i \in 1..26 : Lower[i] = c)]
       @@ [c \in {Upper[i] : i \in 1..26} |-> 64 + (CHOOSE i \in 1..26 : Upper[i] = c)]
       @@ [c \in {Digits[i] : i \in 1..10} |-> 47 + (CHOOSE i \in 1..10 : Digits[i] = c)]
       @@ ("\n" :> 10 @@ " " :> 32 @@ "+" :> 43 @@ "-" :> 45 @@ "/" :> 47
           @@ ":" :> 58 @@ "_" :> 95)

Chars == DOMAIN Ord

Chr(b) == CHOOSE c \in Chars : Ord[c] = b

\* char::is_ascii_uppercase
is_ascii_uppercase(ch) == Ord[ch] >= 65 /\ Ord[ch] <= 90

\* char::to_ascii_lowercase
to_ascii_lowercase(ch) == IF is_ascii_uppercase(ch) THEN Chr(Ord[ch] + 32) ELSE ch

\* char::to_ascii_uppercase, applied to every char by String::make_ascii_uppercase
to_ascii_uppercase(ch) ==
    IF Ord[ch] >= 97 /\ Ord[ch] <= 122 THEN Chr(Ord[ch] - 32) ELSE ch

None == [tag |-> "None"]
Some(v) == [tag |-> "Some", val |-> v]
Ok(v) == [tag |-> "Ok", val |-> v]
\* an error message: the literal text and the formatted argument
Err(m, a) == [tag |-> "Err", msg |-> m, arg |-> a]

\* char::to_digit(10)
to_digit(ch) ==
    IF Ord[ch] >= 48 /\ Ord[ch] <= 57 THEN Some(Ord[ch] - 48) ELSE None

\* the Display form of an unsigned integer, as format!("{}", n) writes it
RECURSIVE Decimal(_)
Decimal(n) == IF n < 10 THEN <<Chr(48 + n)>>
              ELSE Decimal(n \div 10) \o <<Chr(48 + (n % 10))>>

(***************************************************************************)
(* Bit-index codec.                                                        *)
(***************************************************************************)
\* 1u64 << n with the shift amount in range
Bit(n) == {n}

\* MOD67TABLE with the entries of remainders 3 and 4 exchanged
MOD67TABLE_exchanged == <<
    64, 0, 1, 2, 39, 15, 40, 23,
    3, 12, 16, 59, 41, 19, 24, 54,
    4, 64, 13, 10, 17, 62, 60, 28,
    42, 30, 20, 51, 25, 44, 55, 47,
    5, 32, 64, 38, 14, 22, 11, 58,
    18, 53, 63, 9, 61, 27, 29, 50,
    43, 46, 31, 37, 21, 57, 52, 8,
    26, 49, 45, 36, 56, 7, 48, 35,
    6, 34, 33 >>

MOD67TABLE == <<
    64, 0, 1, 39, 2, 15, 40, 23,
    3, 12, 16, 59, 41, 19, 24, 54,
    4, 64, 13, 10, 17, 62, 60, 28,
    42, 30, 20, 51, 25, 44, 55, 47,
    5, 32, 64, 38, 14, 22, 11, 58,
    18, 53, 63, 9, 61, 27, 29, 50,
    43, 46, 31, 37, 21, 57, 52, 8,
    26, 49, 45, 36, 56, 7, 48, 35,
    6, 34, 33 >>

\* 2^n % 67
RECURSIVE Pow2Mod67(_)
Pow2Mod67(n) == IF n = 0 THEN 1 ELSE (2 * Pow2Mod67(n - 1)) % 67

\* bit % 67 for the u64 whose set bits are the elements of bit
RECURSIVE Mod67(_)
Mod67(bit) ==
    IF bit = {} THEN 0
    ELSE LET n == CHOOSE n \in bit : TRUE
         IN (Pow2Mod67(n) + Mod67(bit \ {n})) % 67

\* MOD67TABLE is a Rust array indexed from 0
bit_scan(bit) == MOD67TABLE[Mod67(bit) + 1]

COL_MAP == <<"a", "b", "c", "d", "e", "f", "g", "h">>

index_to_position(index) ==
    LET column == index % 8
        row == index \div 8 + 1
    IN <<COL_MAP[column + 1]>> \o Decimal(row)

\* bit_to_position without the test for the zero mask
bit_to_position_unguarded(bit) ==
    LET onebit_index == bit_scan(bit)
    IN Ok(index_to_position(onebit_index))

bit_to_position(bit) ==
    IF bit = {} THEN Err("No piece present!", <<>>)
    ELSE LET onebit_index == bit_scan(bit)
         IN Ok(index_to_position(onebit_index))

\* position_to_bit with the column bound off by one: byte0 > 97 + 8
position_to_bit_wide(position) ==
    IF Len(position) # 2
    THEN Err("Invalid length of position", Decimal(Len(position)))
    ELSE LET byte0 == Ord[position[1]]
             column == byte0 - 97
             digit == to_digit(position[2])
         IN IF byte0 < 97 \/ byte0 > 97 + 8
            THEN Err("Invalid column character", <<position[1]>>)
            ELSE IF digit.tag = "None"
            THEN Err("Invalid row character", <<position[2]>>)
            ELSE IF digit.val < 1 \/ digit.val > 8
            THEN Err("Invalid row character", <<position[2]>>)
            ELSE LET row == digit.val - 1
                     square_number == row * 8 + column
                 IN Ok(Bit(square_number))

position_to_bit(position) ==
    IF Len(position) # 2
    THEN Err("Invalid length of position", Decimal(Len(position)))
    ELSE LET byte0 == Ord[position[1]]
             column == byte0 - 97
             digit == to_digit(position[2])
         IN IF byte0 < 97 \/ byte0 >= 97 + 8
            THEN Err("Invalid column character", <<position[1]>>)
            ELSE IF digit.tag = "None"
            THEN Err("Invalid row character", <<position[2]>>)
            ELSE IF digit.val < 1 \/ digit.val > 8
            THEN Err("Invalid row character", <<position[2]>>)
            ELSE LET row == digit.val - 1
                     square_number == row * 8 + column
                 IN Ok(Bit(square_number))

(***************************************************************************)
(* Board state.                                                            *)
(***************************************************************************)
White == "White"
Black == "Black"

Empty == [tag |-> "Empty"]
Occupied(i) == [tag |-> "Occupied", idx |-> i]

\* struct Piece
Piece(position, color, piece_type) ==
    [position |-> position, color |-> color, piece_type |-> piece_type]

\* bitflags CastlingRights: u8
NONE == 0
WHITEKINGSIDE == 1
WHITEQUEENSIDE == 2
BLACKKINGSIDE == 4
BLACKQUEENSIDE == 8

\* a | f for a single-bit flag f
BitOr(a, f) == IF (a \div f) % 2 = 1 THEN a ELSE a + f

ALL == BitOr(BitOr(BitOr(WHITEKINGSIDE, WHITEQUEENSIDE), BLACKKINGSIDE), BLACKQUEENSIDE)

(***************************************************************************)
(* String helpers of the standard library and of the utils module.         *)
(***************************************************************************)
\* index of the first occurrence of sep in s, 0 when there is none
Find(s, sep) ==
    IF \E i \in 1..Len(s) : s[i] = sep
    THEN CHOOSE i \in 1..Len(s) : s[i] = sep /\ \A j \in 1..(i - 1) : s[j] # sep
    ELSE 0

\* utils::split_on: the text before the first separator and the text after it
split_on(s, sep) ==
    LET i == Find(s, sep)
    IN IF i = 0 THEN <<s, <<>>>>
       ELSE <<SubSeq(s, 1, i - 1), SubSeq(s, i + 1, Len(s))>>

\* str::splitn(n, |ch| ch == sep): at most n pieces, the last one the remainder
RECURSIVE splitn(_, _, _)
splitn(s, n, sep) ==
    LET i == Find(s, sep)
    IN IF n = 1 \/ i = 0 THEN <<s>>
       ELSE <<SubSeq(s, 1, i - 1)>> \o splitn(SubSeq(s, i + 1, Len(s)), n - 1, sep)

\* value of a string of decimal digits
RECURSIVE DigitsValue(_)
DigitsValue(s) ==
    IF s = <<>> THEN 0
    ELSE 10 * DigitsValue(SubSeq(s, 1, Len(s) - 1)) + to_digit(s[Len(s)]).val

\* str::parse::<usize>: an optional '+', then one or more decimal digits
parse_usize(s) ==
    LET body == IF s # <<>> /\ s[1] = "+" THEN Tail(s) ELSE s
    IN IF body = <<>> THEN Err("ParseIntError", s)
       ELSE IF \E i \in 1..Len(body) : to_digit(body[i]).tag = "None"
       THEN Err("ParseIntError", s)
       ELSE Ok(DigitsValue(body))

(***************************************************************************)
(* Piece::to_string and Game::to_string.                                   *)
(***************************************************************************)
\* Piece::to_string with the colour test inverted
piece_to_string_inverted(piece) ==
    LET result == CASE piece.piece_type = "Pawn" -> <<"p", " ">>
                    [] piece.piece_type = "Rook" -> <<"r", " ">>
                    [] piece.piece_type = "Knight" -> <<"n", " ">>
                    [] piece.piece_type = "Bishop" -> <<"b", " ">>
                    [] piece.piece_type = "Queen" -> <<"q", " ">>
                    [] piece.piece_type = "King" -> <<"k", " ">>
    IN IF piece.color # White
       THEN [i \in 1..Len(result) |-> to_ascii_uppercase(result[i])]
       ELSE result

piece_to_string(piece) ==
    LET result == CASE piece.piece_type = "Pawn" -> <<"p", " ">>
                    [] piece.piece_type = "Rook" -> <<"r", " ">>
                    [] piece.piece_type = "Knight" -> <<"n", " ">>
                    [] piece.piece_type = "Bishop" -> <<"b", " ">>
                    [] piece.piece_type = "Queen" -> <<"q", " ">>
                    [] piece.piece_type = "King" -> <<"k", " ">>
    IN IF piece.color = White
       THEN [i \in 1..Len(result) |-> to_ascii_uppercase(result[i])]
       ELSE result

\* the loop of Game::to_string from the square of index i on (i counts from 0)
RECURSIVE to_string_from(_, _, _, _)
to_string_from(g, i, brd, temp) ==
    IF i >= Len(g.squares) THEN temp \o brd
    ELSE LET square == g.squares[i + 1]
             token == IF square.tag = "Empty" THEN index_to_position(i)
                      ELSE piece_to_string(g.pieces[square.idx + 1])
             temp1 == temp \o token
         IN IF (i + 1) % 8 = 0
            THEN to_string_from(g, i + 1, (temp1 \o <<"\n">>) \o brd, <<>>)
            ELSE to_string_from(g, i + 1, brd, temp1)

to_string(g) == to_string_from(g, 0, <<>>, <<>>)

(***************************************************************************)
(* parse_row.                                                              *)
(***************************************************************************)
\* the piece type a lowercased placement letter stands for, "" for none
PieceTypeOf(ch) ==
    CASE ch = "r" -> "Rook"
      [] ch = "n" -> "Knight"
      [] ch = "b" -> "Bishop"
      [] ch = "q" -> "Queen"
      [] ch = "k" -> "King"
      [] ch = "p" -> "Pawn"
      [] OTHER -> ""

\* number copies of Square::Empty pushed to the front of squares
RECURSIVE PushEmpty(_, _)
PushEmpty(squares, number) ==
    IF number = 0 THEN squares ELSE PushEmpty(<<Empty>> \o squares, number - 1)

\* The loop of parse_row over row[k..].  st holds the locals pieces, squares,
\* piece_index and piece_position, and panic (None while the loop runs on).
\* 1u64 << piece_position with piece_position >= 64 panics in a build with
\* overflow checks and shifts by piece_position % 64 in a build without.
RECURSIVE parse_row_from(_, _, _, _)
parse_row_from(row, k, st, overflow_checks) ==
    IF k > Len(row) \/ st.panic # None THEN st
    ELSE LET ch == row[k]
             is_upper == is_ascii_uppercase(ch)
             color == IF is_upper THEN White ELSE Black
             low == to_ascii_lowercase(ch)
             piece_type == PieceTypeOf(low)
             number == to_digit(low)
             next ==
               IF piece_type # ""
               THEN IF st.piece_position >= 64 /\ overflow_checks
                    THEN [st EXCEPT !.panic = Some("attempt to shift left with overflow")]
                    ELSE [st EXCEPT
                            !.pieces = Append(@, Piece(Bit(st.piece_position % 64),
                                                       color, piece_type)),
                            !.squares = <<Occupied(st.piece_index)>> \o @,
                            !.piece_position = @ + 1,
                            !.piece_index = @ + 1]
               ELSE IF number.tag = "None"
               THEN [st EXCEPT !.panic = Some("Invalid input")]
               ELSE [st EXCEPT
                       !.squares = PushEmpty(@, number.val),
                       !.piece_position = @ + number.val]
         IN parse_row_from(row, k + 1, next, overflow_checks)

\* parse_row numbering the pieces of every row from 0
parse_row_restart(row, piece_index, piece_position, overflow_checks) ==
    parse_row_from(row, 1,
                   [pieces |-> <<>>, squares |-> <<>>, piece_index |-> 0,
                    piece_position |-> piece_position, panic |-> None],
                   overflow_checks)

parse_row(row, piece_index, piece_position, overflow_checks) ==
    parse_row_from(row, 1,
                   [pieces |-> <<>>, squares |-> <<>>, piece_index |-> piece_index,
                    piece_position |-> piece_position, panic |-> None],
                   overflow_checks)

(***************************************************************************)
(* Game::read_FEN, field by field.                                         *)
(***************************************************************************)
\* for s in squares { deque_squares.push_front(s) }
\* the squares of a row put in front of the deque as one block, in the order
\* parse_row left them, where the code pushes them to the front one by one
PushFrontAll_block(deque, squares) == squares \o deque

RECURSIVE PushFrontAll(_, _)
PushFrontAll(deque, squares) ==
    IF squares = <<>> THEN deque
    ELSE PushFrontAll(<<Head(squares)>> \o deque, Tail(squares))

\* The loop of read_FEN over rows[k..].  st holds pieces (game.pieces),
\* deque_squares, piece_index and piece_position, and panic.
RECURSIVE read_rows_from(_, _, _, _)
read_rows_from(rows, k, st, overflow_checks) ==
    IF k > Len(rows) \/ st.panic # None THEN st
    ELSE LET piece_position == st.piece_position - 8
             r == parse_row(rows[k], st.piece_index, piece_position, overflow_checks)
             next ==
               IF r.panic # None THEN [st EXCEPT !.panic = r.panic]
               ELSE [st EXCEPT
                       !.pieces = @ \o r.pieces,
                       !.piece_index = @ + Len(r.pieces),
                       !.piece_position = piece_position,
                       !.deque_squares = PushFrontAll(@, r.squares)]
         IN read_rows_from(rows, k + 1, next, overflow_checks)

read_placement(position, overflow_checks) ==
    read_rows_from(splitn(position, 8, "/"), 1,
                   [pieces |-> <<>>, deque_squares |-> <<>>, piece_index |-> 0,
                    piece_position |-> 64, panic |-> None],
                   overflow_checks)

\* the Game value read_FEN starts from
NewGame ==
    [pieces |-> <<>>, squares |-> <<>>, active_color |-> White,
     castling_rights |-> ALL, en_passant |-> None,
     halfmove_clock |-> 0, fullmove_number |-> 1]

\* the castling loop with an arm that ignores an unknown character
RECURSIVE read_castling_lenient(_, _, _)
read_castling_lenient(field, k, castling) ==
    IF k > Len(field) THEN Ok(castling)
    ELSE LET ch == field[k]
         IN CASE ch = "K" -> read_castling_lenient(field, k + 1, BitOr(castling, WHITEKINGSIDE))
              [] ch = "Q" -> read_castling_lenient(field, k + 1, BitOr(castling, WHITEQUEENSIDE))
              [] ch = "k" -> read_castling_lenient(field, k + 1, BitOr(castling, BLACKKINGSIDE))
              [] ch = "q" -> read_castling_lenient(field, k + 1, BitOr(castling, BLACKQUEENSIDE))
              [] OTHER -> read_castling_lenient(field, k + 1, castling)

\* the loop of read_FEN over the characters of the castling field
RECURSIVE read_castling_from(_, _, _)
read_castling_from(field, k, castling) ==
    IF k > Len(field) THEN Ok(castling)
    ELSE LET ch == field[k]
         IN CASE ch = "K" -> read_castling_from(field, k + 1, BitOr(castling, WHITEKINGSIDE))
              [] ch = "Q" -> read_castling_from(field, k + 1, BitOr(castling, WHITEQUEENSIDE))
              [] ch = "k" -> read_castling_from(field, k + 1, BitOr(castling, BLACKKINGSIDE))
              [] ch = "q" -> read_castling_from(field, k + 1, BitOr(castling, BLACKQUEENSIDE))
              [] ch = "-" -> read_castling_from(field, k + 1, castling)
              [] OTHER -> Err("not a valid character for castling", <<>>)

\* the starting position with the two colours exchanged
START_FEN_exchanged == <<
    "R", "N", "B", "Q", "K", "B", "N", "R", "/", "P", "P", "P", "P", "P", "P", "P",
    "P", "/", "8", "/", "8", "/", "8", "/", "8", "/", "p", "p", "p", "p", "p", "p",
    "p", "p", "/", "r", "n", "b", "q", "k", "b", "n", "r", " ", "w", " ", "K", "Q",
    "k", "q", " ", "-", " ", "0", " ", "1" >>

START_FEN == <<
    "r", "n", "b", "q", "k", "b", "n", "r", "/", "p", "p", "p", "p", "p", "p", "p",
    "p", "/", "8", "/", "8", "/", "8", "/", "8", "/", "P", "P", "P", "P", "P", "P",
    "P", "P", "/", "R", "N", "B", "Q", "K", "B", "N", "R", " ", "w", " ", "K", "Q",
    "k", "q", " ", "-", " ", "0", " ", "1" >>

(***************************************************************************)
(* The codec called on its own: one call per behaviour, the argument drawn *)
(* from a bounded set.                                                     *)
(***************************************************************************)
NameAlphabet == {"_", "a", "e", "h", "i", "A", "0", "1", "3", "8", "9", "/", ":"}

RECURSIVE StringsUpTo(_, _)
StringsUpTo(alphabet, n) ==
    IF n = 0 THEN {<<>>}
    ELSE LET shorter == StringsUpTo(alphabet, n - 1)
         IN shorter \cup {Append(s, c) : s \in shorter, c \in alphabet}

Names == StringsUpTo(NameAlphabet, MaxNameLen)

RECURSIVE MasksUpTo(_)
MasksUpTo(k) ==
    IF k = 0 THEN {{}}
    ELSE LET fewer == MasksUpTo(k - 1)
         IN fewer \cup {m \cup {i} : m \in fewer, i \in 0..63}

Masks == MasksUpTo(MaxBits)

CallPositionToBit ==
    /\ op = "none"
    /\ \E position \in Names :
         /\ op' = "position_to_bit"
         /\ arg' = position
         /\ ret' = position_to_bit(position)
    /\ UNCHANGED fenVars

CallBitToPosition ==
    /\ op = "none"
    /\ \E bit \in Masks :
         /\ op' = "bit_to_position"
         /\ arg' = bit
         /\ ret' = bit_to_position(bit)
    /\ UNCHANGED fenVars

CallIndexToPosition ==
    /\ op = "none"
    /\ \E index \in 0..63 :
         /\ op' = "index_to_position"
         /\ arg' = index
         /\ ret' = index_to_position(index)
    /\ UNCHANGED fenVars

CallBitScan ==
    /\ op = "none"
    /\ \E bit \in Masks :
         /\ op' = "bit_scan"
         /\ arg' = bit
         /\ ret' = bit_scan(bit)
    /\ UNCHANGED fenVars

Init ==
    /\ pc = "idle"
    /\ entry = "none"
    /\ fen = <<>>
    /\ rest = <<>>
    /\ game = None
    /\ panic = None
    /\ board = None
    /\ op = "none"
    /\ arg = <<>>
    /\ ret = None

NextCodec ==
    \/ CallPositionToBit
    \/ CallBitToPosition
    \/ CallIndexToPosition
    \/ CallBitScan

SpecCodec == Init /\ [][NextCodec]_vars

(***************************************************************************)
(* The FEN strings handed to read_FEN.                                     *)
(***************************************************************************)
RECURSIVE Join(_, _)
Join(fields, sep) ==
    IF fields = <<>> THEN <<>>
    ELSE IF Len(fields) = 1 THEN fields[1]
    ELSE fields[1] \o <<sep>> \o Join(Tail(fields), sep)

FillerRow == <<"8">>

\* rows describing exactly eight squares
FullRows == { <<"r", "n", "b", "q", "k", "b", "n", "r">>,
              <<"4", "P", "3">>,
              <<"0", "K", "7">> }

\* rows describing fewer or more squares, or holding an unknown character
OddRows == { <<"7">>, <<"8", "p">>, <<"3", "x", "4">> }

VariedRows == FullRows \cup OddRows

\* the sets of at most n row numbers out of 1..8
RECURSIVE RowChoices(_)
RowChoices(n) ==
    IF n = 0 THEN {{}}
    ELSE LET fewer == RowChoices(n - 1)
         IN fewer \cup {c \cup {i} : c \in fewer, i \in 1..8}

\* eight rows, at most MaxVaried of them different from the filler row
EightRowPlacements ==
    UNION { { Join([i \in 1..8 |-> IF i \in c THEN f[i] ELSE FillerRow], "/")
              : f \in [c -> VariedRows] }
            : c \in RowChoices(MaxVaried) }

START_PLACEMENT == split_on(START_FEN, " ")[1]

\* placements with fewer or more than eight rows, and the standard one
OtherPlacements ==
    { START_PLACEMENT,
      <<>>,
      <<"8">>,
      <<"R", "3", "K", "2", "R", "/", "8", "/", "8", "/", "8", "/", "8", "/", "8", "/", "8", "/", "r", "3", "k", "2", "r">>,
      <<"8", "/", "8", "/", "8", "/", "8", "/", "8", "/", "8", "/", "/", "8">>,
      <<"r", "n", "b", "q", "k", "b", "n", "r", "/", "p", "p", "p", "p", "p", "p", "p", "p">>,
      <<"8", "/", "8", "/", "8", "/", "8", "/", "8", "/", "8", "/", "4", "k", "3">>,
      <<"8", "/", "8", "/", "8", "/", "8", "/", "8", "/", "8", "/", "8", "/", "8", "/", "8">>,
      <<"8", "/", "8", "/", "8", "/", "8", "/", "8", "/", "8", "/", "8", "/", "4", "K", "3", "/">>,
      <<"9", "/", "8", "/", "8", "/", "8", "/", "8", "/", "8", "/", "8", "/", "8">>,
      <<"8", "/", "8", "/", "8", "/", "8", "/", "8", "/", "8", "/", "8", "/", "x", "7">> }

GoodTail == <<"w", " ", "K", "Q", "k", "q", " ", "-", " ", "0", " ", "1">>

ColorFields == { <<"w">>, <<"b">>, <<"x">>, <<>> }
CastlingFields == { <<"K", "Q", "k", "q">>, <<"-">>, <<"q", "K">>, <<"K", "Z">> }
EnPassantFields == { <<"-">>, <<"e", "3">>, <<"h", "6">>, <<"i", "1">>, <<"e">> }
HalfmoveFields == { <<"0">>, <<"1", "2">>, <<"x">>, <<>> }
FullmoveFields == { <<"1">>, <<"+", "7">>, <<"1", "a">>, <<"-", "1">> }

Tails ==
    { Join(<<c, k, e, h, f>>, " ") :
        c \in ColorFields, k \in CastlingFields, e \in EnPassantFields,
        h \in HalfmoveFields, f \in FullmoveFields }

\* the placements combined with every tail
TailPlacements ==
    { START_PLACEMENT,
      <<"8", "/", "8", "/", "8", "/", "8", "/", "8", "/", "8", "/", "8", "/", "x", "7">>,
      <<"8", "/", "8", "/", "8", "/", "8", "/", "8", "/", "8", "/", "4", "k", "3">> }

\* strings with fewer or more than six fields
OtherFens ==
    { START_PLACEMENT,
      START_PLACEMENT \o <<" ", "b">>,
      START_PLACEMENT \o <<" ", "b", " ", "K", "k">>,
      START_PLACEMENT \o <<" ", "b", " ", "-", " ", "e", "3">>,
      START_PLACEMENT \o <<" ", "b", " ", "-", " ", "-", " ", "3">>,
      START_PLACEMENT \o <<" ", "w", " ", "-", " ", "a", "6", " ", "0", " ", "2", "0", " ", "1">>,
      START_PLACEMENT \o <<" ", " ", "w", " ", "-", " ", "-", " ", "0", " ", "1">> }

Fens ==
    { p \o <<" ">> \o GoodTail : p \in EightRowPlacements \cup OtherPlacements }
    \cup { p \o <<" ">> \o tl : p \in TailPlacements, tl \in Tails }
    \cup OtherFens

(***************************************************************************)
(* The calls and the steps of read_FEN.                                    *)
(***************************************************************************)
\* Game::initialize()
Initialize ==
    /\ pc = "idle"
    /\ entry' = "initialize"
    /\ fen' = START_FEN
    /\ game' = NewGame
    /\ pc' = "placement"
    /\ UNCHANGED <<rest, panic, board, codecVars>>

\* Game::read_FEN(f)
CallReadFEN ==
    /\ pc = "idle"
    /\ \E f \in Fens : fen' = f
    /\ entry' = "read_FEN"
    /\ game' = NewGame
    /\ pc' = "placement"
    /\ UNCHANGED <<rest, panic, board, codecVars>>

\* the unwinding of a panic: the Game under construction is dropped
Abort(msg) ==
    /\ pc' = "panic"
    /\ panic' = Some(msg)
    /\ game' = None
    /\ rest' = <<>>

ReadPlacement ==
    /\ pc = "placement"
    /\ \E overflow_checks \in BOOLEAN :
         LET sp == split_on(fen, " ")
             r == read_placement(sp[1], overflow_checks)
         IN IF r.panic # None
            THEN Abort(r.panic.val)
            ELSE /\ game' = [game EXCEPT !.pieces = r.pieces,
                                         !.squares = r.deque_squares]
                 /\ rest' = sp[2]
                 /\ pc' = "color"
                 /\ UNCHANGED panic
    /\ UNCHANGED <<entry, fen, board, codecVars>>

ReadActiveColor ==
    /\ pc = "color"
    /\ LET sp == split_on(rest, " ")
           color_to_move == sp[1]
       IN IF color_to_move = <<"w">>
          THEN /\ game' = [game EXCEPT !.active_color = White]
               /\ rest' = sp[2]
               /\ pc' = "castling"
               /\ UNCHANGED panic
          ELSE IF color_to_move = <<"b">>
          THEN /\ game' = [game EXCEPT !.active_color = Black]
               /\ rest' = sp[2]
               /\ pc' = "castling"
               /\ UNCHANGED panic
          ELSE Abort("Unknown color assigner")
    /\ UNCHANGED <<entry, fen, board, codecVars>>

ReadCastling ==
    /\ pc = "castling"
    /\ LET sp == split_on(rest, " ")
           castling == read_castling_from(sp[1], 1, NONE)
       IN IF castling.tag = "Err"
          THEN Abort(castling.msg)
          ELSE /\ game' = [game EXCEPT !.castling_rights = castling.val]
               /\ rest' = sp[2]
               /\ pc' = "en_passant"
               /\ UNCHANGED panic
    /\ UNCHANGED <<entry, fen, board, codecVars>>

ReadEnPassant ==
    /\ pc = "en_passant"
    /\ LET sp == split_on(rest, " ")
           en_passant == sp[1]
           bit == position_to_bit(en_passant)
       IN IF en_passant = <<"-">>
          THEN /\ game' = [game EXCEPT !.en_passant = None]
               /\ rest' = sp[2]
               /\ pc' = "halfmove"
               /\ UNCHANGED panic
          ELSE IF bit.tag = "Err"
          THEN Abort(bit.msg)
          ELSE /\ game' = [game EXCEPT !.en_passant = Some(bit.val)]
               /\ rest' = sp[2]
               /\ pc' = "halfmove"
               /\ UNCHANGED panic
    /\ UNCHANGED <<entry, fen, board, codecVars>>

ReadHalfmove ==
    /\ pc = "halfmove"
    /\ LET sp == split_on(rest, " ")
           number == parse_usize(sp[1])
       IN IF number.tag = "Err"
          THEN Abort("Invalid halfmove")
          ELSE /\ game' = [game EXCEPT !.halfmove_clock = number.val]
               /\ rest' = sp[2]
               /\ pc' = "fullmove"
               /\ UNCHANGED panic
    /\ UNCHANGED <<entry, fen, board, codecVars>>

\* the last field; read_FEN then returns game
ReadFullmove ==
    /\ pc = "fullmove"
    /\ LET sp == split_on(rest, " ")
           number == parse_usize(sp[1])
       IN IF number.tag = "Err"
          THEN Abort("Invalid fullmove")
          ELSE /\ game' = [game EXCEPT !.fullmove_number = number.val]
               /\ rest' = sp[2]
               /\ pc' = "returned"
               /\ UNCHANGED panic
    /\ UNCHANGED <<entry, fen, board, codecVars>>

\* game.to_string() on the Game that read_FEN returned
Render ==
    /\ pc = "returned"
    /\ board' = Some(to_string(game))
    /\ pc' = "rendered"
    /\ UNCHANGED <<entry, fen, rest, game, panic, codecVars>>

Next ==
    \/ Initialize
    \/ CallReadFEN
    \/ ReadPlacement
    \/ ReadActiveColor
    \/ ReadCastling
    \/ ReadEnPassant
    \/ ReadHalfmove
    \/ ReadFullmove
    \/ Render

Spec == Init /\ [][Next]_vars

(***************************************************************************)
(* Reading of a FEN string by the rules of the notation, used to state     *)
(* the properties below.                                                   *)
(***************************************************************************)
RECURSIVE SplitAll(_, _)
SplitAll(s, sep) ==
    LET i == Find(s, sep)
    IN IF i = 0 THEN <<s>>
       ELSE <<SubSeq(s, 1, i - 1)>> \o SplitAll(SubSeq(s, i + 1, Len(s)), sep)

\* the n-th space-separated field of the input, empty when it is missing
Field(n) ==
    LET fields == SplitAll(fen, " ")
    IN IF n <= Len(fields) THEN fields[n] ELSE <<>>

PlacementRows == SplitAll(Field(1), "/")

PieceLetters == {"r", "n", "b", "q", "k", "p", "R", "N", "B", "Q", "K", "P"}
WhiteLetters == {"R", "N", "B", "Q", "K", "P"}

LetterType(c) ==
    CASE c \in {"r", "R"} -> "Rook"
      [] c \in {"n", "N"} -> "Knight"
      [] c \in {"b", "B"} -> "Bishop"
      [] c \in {"q", "Q"} -> "Queen"
      [] c \in {"k", "K"} -> "King"
      [] c \in {"p", "P"} -> "Pawn"

DigitValue(c) == CHOOSE d \in 0..9 : Digits[d + 1] = c
IsDigit(c) == \E d \in 0..9 : Digits[d + 1] = c

\* the squares a row describes, file a first: a piece letter, or "." for empty
RECURSIVE RowCells(_)
RowCells(row) ==
    IF row = <<>> THEN <<>>
    ELSE IF IsDigit(Head(row))
    THEN [i \in 1..DigitValue(Head(row)) |-> "."] \o RowCells(Tail(row))
    ELSE <<Head(row)>> \o RowCells(Tail(row))

\* eight rows of eight squares each
EightByEight ==
    /\ Len(PlacementRows) = 8
    /\ \A k \in 1..8 :
         /\ \A i \in 1..Len(PlacementRows[k]) :
              PlacementRows[k][i] \in PieceLetters \/ IsDigit(PlacementRows[k][i])
         /\ Len(RowCells(PlacementRows[k])) = 8

\* what stands on the square of index s: rank 8 is the first row
LetterAt(s) == RowCells(PlacementRows[8 - (s \div 8)])[(s % 8) + 1]

\* the algebraic name of the square of index s
SquareName(s) == <<Lower[(s % 8) + 1], Digits[(s \div 8) + 2]>>

Returned == pc \in {"returned", "rendered"}

\* the piece letters of the placement field in reading order
PlacementLetters == SelectSeq(Field(1), LAMBDA c : c \in PieceLetters)

PieceMatches(piece, c) ==
    /\ piece.color = (IF c \in WhiteLetters THEN White ELSE Black)
    /\ piece.piece_type = LetterType(c)

(***************************************************************************)
(* Properties.                                                             *)
(***************************************************************************)

\* C1: for a placement field of 8 rows of 8 squares each, the Game that
\* read_FEN returns has 64 squares in increasing index order (a1 first):
\* squares[s] is Occupied(i) exactly when a piece letter stands on square s,
\* and then pieces[i] has position 1 << s, the colour of the letter's case
\* and the letter's type; squares[s] is Empty otherwise.
C1_PlacementToSquares ==
    (Returned /\ EightByEight) =>
        /\ Len(game.squares) = 64
        /\ \A s \in 0..63 :
             LET sq == game.squares[s + 1]
             IN IF LetterAt(s) = "."
                THEN sq = Empty
                ELSE /\ sq.tag = "Occupied"
                     /\ sq.idx < Len(game.pieces)
                     /\ game.pieces[sq.idx + 1].position = {s}
                     /\ PieceMatches(game.pieces[sq.idx + 1], LetterAt(s))

C1_Witness ==
    /\ pc = "returned"
    /\ entry = "read_FEN"
    /\ EightByEight
    /\ Len(game.pieces) = 9
    /\ game.squares[5] = Occupied(8)

\* C2: Game::initialize() reads the standard starting position and yields 32
\* pieces, White to move, all four castling flags, no en-passant square,
\* halfmove clock 0, fullmove number 1, a White Rook on a1 and a Black Rook
\* on h8.
C2_Initialize ==
    (entry = "initialize") =>
        /\ fen = START_FEN
        /\ pc # "panic"
        /\ Returned =>
             /\ Len(game.pieces) = 32
             /\ game.active_color = White
             /\ \A f \in {WHITEKINGSIDE, WHITEQUEENSIDE, BLACKKINGSIDE, BLACKQUEENSIDE} :
                  (game.castling_rights \div f) % 2 = 1
             /\ game.en_passant = None
             /\ game.halfmove_clock = 0
             /\ game.fullmove_number = 1
             /\ Len(game.squares) = 64
             /\ game.squares[1].tag = "Occupied"
             /\ game.pieces[game.squares[1].idx + 1] = Piece({0}, White, "Rook")
             /\ game.squares[64].tag = "Occupied"
             /\ game.pieces[game.squares[64].idx + 1] = Piece({63}, Black, "Rook")

C2_Witness == entry = "initialize" /\ pc = "returned" /\ Len(game.pieces) = 32

\* C3: round trip of the square codec: for every index i in 0..63,
\* position_to_bit(index_to_position(i)) is Ok(1 << i),
\* bit_to_position(1 << i) is Ok(index_to_position(i)), and
\* bit_scan(1 << i) is i.
C3_RoundTrip ==
    (op = "index_to_position") =>
        /\ position_to_bit(ret) = Ok({arg})
        /\ bit_to_position({arg}) = Ok(ret)
        /\ bit_scan({arg}) = arg

C3_Witness == op = "index_to_position" /\ arg = 63 /\ ret = <<"h", "8">>

\* C4: position_to_bit returns the invalid-length error unless the name has
\* exactly 2 characters; otherwise the invalid-column error unless the first
\* character is in a..h; otherwise the invalid-row error unless the second
\* is a digit 1..8; otherwise Ok(1 << ((digit-1)*8 + (col - 'a'))).  Every
\* failing case is an error value.
C4_PositionToBitOrder ==
    (op = "position_to_bit") =>
        IF Len(arg) # 2
        THEN ret.tag = "Err" /\ ret.msg = "Invalid length of position"
        ELSE IF ~ \E f \in 1..8 : Lower[f] = arg[1]
        THEN ret.tag = "Err" /\ ret.msg = "Invalid column character"
        ELSE IF ~ \E r \in 1..8 : Digits[r + 1] = arg[2]
        THEN ret.tag = "Err" /\ ret.msg = "Invalid row character"
        ELSE LET f == CHOOSE f \in 1..8 : Lower[f] = arg[1]
                 r == CHOOSE r \in 1..8 : Digits[r + 1] = arg[2]
             IN ret = Ok({(r - 1) * 8 + (f - 1)})

C4_Witness ==
    /\ op = "position_to_bit"
    /\ arg = <<"a", "0">>
    /\ ret.tag = "Err"
    /\ ret.msg = "Invalid row character"

\* a row of the rendered board: line k from the top, 17 characters
BoardLine(k) == SubSeq(board.val, (k - 1) * 17 + 1, k * 17)

\* C5: for a Game read from 8 rows of 8 squares, to_string returns 8 lines
\* of 8 two-character tokens and a newline; line k from the top shows rank
\* 9-k, files a to h; an occupied square is its FEN letter followed by a
\* space, an empty square its algebraic name.  For the default position the
\* first line is the lowercase black back rank, the last the uppercase white.
C5_Render ==
    (pc = "rendered" /\ EightByEight) =>
        /\ Len(board.val) = 8 * 17
        /\ \A k \in 1..8 :
             /\ BoardLine(k)[17] = "\n"
             /\ \A f \in 0..7 :
                  LET s == (8 - k) * 8 + f
                      token == SubSeq(BoardLine(k), 2 * f + 1, 2 * f + 2)
                  IN token = IF LetterAt(s) = "." THEN SquareName(s)
                             ELSE <<LetterAt(s), " ">>
        /\ (entry = "initialize") =>
             /\ BoardLine(1) = <<"r", " ", "n", " ", "b", " ", "q", " ", "k", " ",
                                 "b", " ", "n", " ", "r", " ", "\n">>
             /\ BoardLine(8) = <<"R", " ", "N", " ", "B", " ", "Q", " ", "K", " ",
                                 "B", " ", "N", " ", "R", " ", "\n">>

C5_Witness ==
    /\ pc = "rendered"
    /\ entry = "read_FEN"
    /\ EightByEight
    /\ SubSeq(BoardLine(8), 1, 4) = <<"K", " ", "b", "1">>

\* C6: every Game that read_FEN returns has a square list of exactly 64
\* entries.
C6_SixtyFourSquares == Returned => Len(game.squares) = 64

\* C7: in every Game that read_FEN returns, every Occupied(i) has
\* i < len(pieces), each piece index is held by exactly one square, and
\* pieces[i] is the i-th piece letter of the placement field in reading
\* order.
C7_PieceIndices ==
    Returned =>
        /\ \A j \in 1..Len(game.squares) :
             game.squares[j].tag = "Occupied" =>
                game.squares[j].idx \in 0..(Len(game.pieces) - 1)
        /\ \A i \in 0..(Len(game.pieces) - 1) :
             Cardinality({j \in 1..Len(game.squares) : game.squares[j] = Occupied(i)}) = 1
        /\ Len(game.pieces) = Len(PlacementLetters)
        /\ \A i \in 1..Len(game.pieces) : PieceMatches(game.pieces[i], PlacementLetters[i])

C7_Witness ==
    /\ pc = "returned"
    /\ ~ EightByEight
    /\ Len(game.squares) = 65
    /\ Len(game.pieces) = 9

\* C8: read_FEN aborts whenever the placement field holds a character that
\* is neither a digit 1-8 nor a piece letter.
C8_UnknownPlacementCharAborts ==
    (pc \notin {"idle", "placement", "panic"}) =>
        \A k \in 1..Len(PlacementRows) : \A i \in 1..Len(PlacementRows[k]) :
            \/ PlacementRows[k][i] \in PieceLetters
            \/ \E d \in 1..8 : Digits[d + 1] = PlacementRows[k][i]

\* the fields after the placement, numbered as in the input
BadColor == Field(2) \notin {<<"w">>, <<"b">>}
BadCastling == \E i \in 1..Len(Field(3)) : Field(3)[i] \notin {"K", "Q", "k", "q", "-"}
BadEnPassant == Field(4) # <<"-">> /\ position_to_bit(Field(4)).tag = "Err"
\* a counter is numeric when it is the decimal numeral of a non-negative
\* integer: one or more digits, with or without a leading '+'
NonNumeric(s) ==
    LET body == IF s # <<>> /\ s[1] = "+" THEN Tail(s) ELSE s
    IN body = <<>> \/ \E i \in 1..Len(body) : ~ IsDigit(body[i])
Malformed(n) ==
    CASE n = 2 -> BadColor
      [] n = 3 -> BadCastling
      [] n = 4 -> BadEnPassant
      [] n = 5 -> NonNumeric(Field(5))
      [] n = 6 -> NonNumeric(Field(6))

\* the number of the field read_FEN is reading, or stopped at
FieldReached ==
    CASE pc = "placement" -> 1
      [] pc = "color" -> 2
      [] pc = "castling" -> 3
      [] pc = "en_passant" -> 4
      [] pc = "halfmove" -> 5
      [] pc = "fullmove" -> 6
      [] Returned -> 7
      [] pc = "panic" /\ panic.val \in {"Invalid input", "attempt to shift left with overflow"} -> 1
      [] pc = "panic" /\ panic.val = "Unknown color assigner" -> 2
      [] pc = "panic" /\ panic.val = "not a valid character for castling" -> 3
      [] pc = "panic" /\ panic.val \in {"Invalid length of position",
                                         "Invalid column character",
                                         "Invalid row character"} -> 4
      [] pc = "panic" /\ panic.val = "Invalid halfmove" -> 5
      [] pc = "panic" /\ panic.val = "Invalid fullmove" -> 6

C10_AnyMask ==
    (op = "bit_to_position") =>
        /\ (ret.tag = "Err") <=> (arg = {})
        /\ (arg # {}) =>
             /\ bit_scan(arg) \in arg
             /\ \E s \in arg : ret.val = SquareName(s)

\* C10 amended: bit_to_position fails exactly for mask 0; for every mask
\* with exactly one bit set, bit_scan finds that bit and the name is that
\* square's.
C10_SingleBitMask ==
    (op = "bit_to_position") =>
        /\ (ret.tag = "Err") <=> (arg = {})
        /\ (Cardinality(arg) = 1) =>
             /\ bit_scan(arg) \in arg
             /\ \E s \in arg : ret = Ok(SquareName(s))

C10_Witness == op = "bit_to_position" /\ arg = {36} /\ ret = Ok(<<"e", "5">>)

====
